---- MODULE Spec2Model ----
(***************************************************************************)
(* Study plan allocation engine of study-sync-pro.                         *)
(*                                                                         *)
(* Dates are day numbers (parseISO of a 'yyyy-MM-dd' string is local       *)
(* midnight, so differenceInDays, isBefore and isSameDay are integer       *)
(* subtraction and comparison).  Hours are kept in hundredths of an hour   *)
(* so that the arithmetic of the engine (hours per page = 1/20 h, the      *)
(* equal split of slack, the proportional scale-down and the rounding to   *)
(* one decimal) is exact.                                                  *)
(***************************************************************************)
EXTENDS Integers, Sequences, FiniteSets, TLC

VARIABLES
  impl,       \* which provider is mounted: "updated", "legacy" or "hook"
  exams,      \* Exam[]
  today,      \* new Date() at midnight, as a day number
  studyDays,  \* StudyDay[]
  raised,     \* the last handler ended with an uncaught TypeError
  last,       \* the last handler that ran and its arguments
  prevDays,   \* studyDays before the last handler ran
  base,       \* studyDays before the current run of keepCompletedSessions regenerations
  streak,     \* number of keepCompletedSessions regenerations in a row (capped at 2)
  steps,      \* number of handlers run so far
  edits,      \* number of availability edits so far
  studySessions, \* StudySession[]
  unitsEdited \* the completion dialog has saved a unit list other than the planned one

vars == <<impl, exams, today, studyDays, raised, last, prevDays, base, streak, steps, edits,
          studySessions, unitsEdited>>

----------------------------------------------------------------------------
(* Bounds *)

MaxSteps == 4
MaxAdvance == 1
MaxEdits == 1
Horizon == 3

----------------------------------------------------------------------------
(* Settings and absent values *)

defaultDailyHours == 400
reviewDays == 3
Undefined == -1
NegInfinity == -1000000

----------------------------------------------------------------------------
(* Arithmetic helpers *)

Min2(a, b) == IF a < b THEN a ELSE b

Max2(a, b) == IF a > b THEN a ELSE b

CeilDiv(a, b) == (a + b - 1) \div b

RECURSIVE SumSeq(_)
SumSeq(s) == IF s = <<>> THEN 0 ELSE Head(s) + SumSeq(Tail(s))

Range(s) == {s[i] : i \in DOMAIN s}

Indices(n) == [i \in 1..n |-> i]

\* Array.slice(start): a negative start counts from the end
Slice(s, start) ==
  SubSeq(s, (IF start < 0 THEN Max2(Len(s) + start, 0) ELSE Min2(start, Len(s))) + 1, Len(s))

MaxOfSet(S) == CHOOSE x \in S : \A y \in S : y <= x

MinOfSet(S) == CHOOSE x \in S : \A y \in S : x <= y

\* Array.findIndex, 1-based; 0 when nothing matches
FindIndex(s, Test(_)) ==
  LET S == {i \in DOMAIN s : Test(s[i])}
  IN IF S = {} THEN 0 ELSE MinOfSet(S)

\* Math.max(...Array.from(set)) + k; Math.max() of nothing is -Infinity
PlusInf(a, k) == IF a = NegInfinity THEN NegInfinity ELSE a + k

MathMax(S) == IF S = {} THEN NegInfinity ELSE MaxOfSet(S)

\* Math.round(x * 10) / 10 for x = num/den hundredths of an hour, x >= 0
RoundTenth(num, den) == 10 * ((2 * num + 10 * den) \div (20 * den))

----------------------------------------------------------------------------
(* Exam attributes *)

StudyUnits(exam) == IF exam.usePages THEN exam.pages ELSE exam.chapters

\* hours per unit, in hundredths: timePerUnit is pages per hour for a page
\* exam and hundredths of an hour per chapter for a chapter exam
TimePerUnit(exam) ==
  IF exam.usePages
    THEN 100 \div (IF exam.timePerUnit = 0 THEN 20 ELSE exam.timePerUnit)
    ELSE (IF exam.timePerUnit = 0 THEN 100 ELSE exam.timePerUnit)

ReviewDaysForExam(exam) ==
  IF exam.customReviewDays # Undefined THEN exam.customReviewDays ELSE reviewDays

StudyStartDate(exam) ==
  IF exam.startStudyDate # Undefined THEN exam.startStudyDate ELSE today

ExamById(id) == exams[FindIndex(exams, LAMBDA e : e.id = id)]

ExamExists(id) == \E i \in DOMAIN exams : exams[i].id = id

FurthestExamDate == MaxOfSet({exams[i].date : i \in DOMAIN exams})

----------------------------------------------------------------------------
(* Assignments *)

StudyEntry(exam, cursor, n) ==
  [examId |-> exam.id,
   chapters |-> [i \in 1..n |-> PlusInf(cursor, i - 1)],
   plannedHours |-> Max2(50, n * TimePerUnit(exam)),
   actualHours |-> 0,
   completed |-> FALSE,
   isReview |-> FALSE]

ReviewEntry(exam) ==
  [examId |-> exam.id,
   chapters |-> <<>>,
   plannedHours |-> 100,
   actualHours |-> 0,
   completed |-> FALSE,
   isReview |-> TRUE]

HasEntryFor(day, id) == \E j \in DOMAIN day.exams : day.exams[j].examId = id

HasCompleted(day) == \E j \in DOMAIN day.exams : day.exams[j].completed

HasCompletedFor(day, id) ==
  \E j \in DOMAIN day.exams : day.exams[j].examId = id /\ day.exams[j].completed

\* getCompletedUnits reads the stored list, not the list under construction
getCompletedUnits(days, id) ==
  UNION {UNION {Range(days[i].exams[j].chapters) :
                  j \in {k \in DOMAIN days[i].exams :
                           /\ days[i].exams[k].examId = id
                           /\ days[i].exams[k].completed}} :
           i \in DOMAIN days}

----------------------------------------------------------------------------
(* Calendar Builder *)

DayAt(days, date) == days[FindIndex(days, LAMBDA d : d.date = date)]

HasDay(days, date) == \E i \in DOMAIN days : days[i].date = date

FreshDay(days, date) ==
  [date |-> date,
   available |-> IF HasDay(days, date) THEN DayAt(days, date).available ELSE TRUE,
   availableHours |-> IF HasDay(days, date) THEN DayAt(days, date).availableHours
                      ELSE defaultDailyHours,
   exams |-> <<>>,
   customModified |-> IF impl = "hook" /\ HasDay(days, date)
                      THEN DayAt(days, date).customModified ELSE FALSE]

\* for (i = 0; i <= daysToGenerate; i++) with daysToGenerate = furthest - today + 1
CalendarLength == Max2(0, FurthestExamDate - today + 2)

\* a calendar that carries no existing day over
BuildCalendarFresh(days, keep) ==
  [i \in 1..CalendarLength |-> FreshDay(days, today + i - 1)]

\* AppContext.updated.tsx and the hook: days holding a completed assignment
\* are carried over whole when keepCompletedSessions is set
BuildCalendar(days, keep) ==
  LET existingDays == IF keep THEN SelectSeq(days, HasCompleted) ELSE <<>>
  IN [i \in 1..CalendarLength |->
        IF HasDay(existingDays, today + i - 1)
          THEN DayAt(existingDays, today + i - 1)
          ELSE FreshDay(days, today + i - 1)]

processedExams(days, keep) ==
  IF keep
    THEN UNION {{days[i].exams[j].examId :
                   j \in {k \in DOMAIN days[i].exams : days[i].exams[k].completed}} :
                i \in DOMAIN days}
    ELSE {}

----------------------------------------------------------------------------
(* Day Selection and Pruning, full generation *)

\* a selection that does not look at the available flag
FullAvailableDaysAny(days, exam) ==
  SelectSeq(Indices(Len(days)), LAMBDA i :
    /\ days[i].date < exam.date
    /\ days[i].date >= StudyStartDate(exam)
    /\ ~HasEntryFor(days[i], exam.id))

FullAvailableDays(days, exam) ==
  SelectSeq(Indices(Len(days)), LAMBDA i :
    /\ days[i].date < exam.date
    /\ days[i].date >= StudyStartDate(exam)
    /\ days[i].available
    /\ ~HasEntryFor(days[i], exam.id))

optimalStudyDaysNeeded(exam) ==
  CeilDiv(StudyUnits(exam) * TimePerUnit(exam) * 10, defaultDailyHours * 8)

\* a pruning that takes 40% of the surplus share for every exam
startDayIndexFlat(n, exam) ==
  IF 2 * n > 3 * optimalStudyDaysNeeded(exam)
    THEN (4 * ((7 * (n - optimalStudyDaysNeeded(exam))) \div 10)) \div 10
    ELSE 0

startDayIndex(n, exam) ==
  IF 2 * n > 3 * optimalStudyDaysNeeded(exam)
    THEN LET daysToSkip == (7 * (n - optimalStudyDaysNeeded(exam))) \div 10
         IN IF StudyUnits(exam) < 30 /\ exam.date - today > 30
              THEN daysToSkip
              ELSE (4 * daysToSkip) \div 10
    ELSE 0

PrunedDays(avail, exam) == Slice(avail, startDayIndex(Len(avail), exam))

----------------------------------------------------------------------------
(* Unit Distribution, full generation *)

\* a split that gives the review one day more
reviewStartIndexEarly(avail, exam) == Max2(0, Len(avail) - ReviewDaysForExam(exam) - 1)

reviewStartIndex(avail, exam) == Max2(0, Len(avail) - ReviewDaysForExam(exam))

FullStudyDays(avail, exam) ==
  IF reviewStartIndex(avail, exam) = 0 /\ ReviewDaysForExam(exam) > 0
    THEN SubSeq(avail, 1, Min2(CeilDiv(ReviewDaysForExam(exam), 2), Len(avail)))
    ELSE SubSeq(avail, 1, reviewStartIndex(avail, exam))

FullReviewDays(avail, exam) == SubSeq(avail, reviewStartIndex(avail, exam) + 1, Len(avail))

unitsPerDay(sdays, exam) ==
  Max2(1, IF Len(sdays) > 0 THEN CeilDiv(StudyUnits(exam), Len(sdays)) ELSE 0)

\* the hook gives a customModified day 1.5 times the units and the hour cap
HourCap(day, exam) ==
  IF impl = "hook" /\ day.customModified
    THEN (3 * day.availableHours) \div (2 * TimePerUnit(exam))
    ELSE day.availableHours \div TimePerUnit(exam)

DayTarget(day, upd) ==
  IF impl = "hook" /\ day.customModified THEN CeilDiv(3 * upd, 2) ELSE upd

maxUnitsForToday(day, exam, upd, remaining) ==
  Min2(DayTarget(day, upd), Min2(remaining, HourCap(day, exam)))

\* a walk whose cursor stays where it started
RECURSIVE FullWalkStuck(_, _, _, _, _, _, _)
FullWalkStuck(days, sdays, k, remaining, cursor, exam, upd) ==
  IF k > Len(sdays) \/ remaining <= 0
    THEN days
    ELSE LET n == maxUnitsForToday(days[sdays[k]], exam, upd, remaining)
         IN FullWalkStuck([days EXCEPT ![sdays[k]].exams = Append(@, StudyEntry(exam, cursor, n))],
                          sdays, k + 1, remaining - n, cursor, exam, upd)

RECURSIVE FullWalk(_, _, _, _, _, _, _)
FullWalk(days, sdays, k, remaining, cursor, exam, upd) ==
  IF k > Len(sdays) \/ remaining <= 0
    THEN days
    ELSE LET n == maxUnitsForToday(days[sdays[k]], exam, upd, remaining)
         IN FullWalk([days EXCEPT ![sdays[k]].exams = Append(@, StudyEntry(exam, cursor, n))],
                     sdays, k + 1, remaining - n, cursor + n, exam, upd)

RECURSIVE PushReview(_, _, _, _)
PushReview(days, rdays, k, exam) ==
  IF k > Len(rdays)
    THEN days
    ELSE PushReview([days EXCEPT ![rdays[k]].exams = Append(@, ReviewEntry(exam))],
                    rdays, k + 1, exam)

Distribute(days, avail, exam) ==
  LET sdays == FullStudyDays(avail, exam)
      walked == FullWalk(days, sdays, 1, StudyUnits(exam), 1, exam, unitsPerDay(sdays, exam))
  IN PushReview(walked, FullReviewDays(avail, exam), 1, exam)

----------------------------------------------------------------------------
(* Daily Load Balancer *)

\* a balancer that hands all the unused time to the first assignment of the day
BalanceDayFirst(day) ==
  LET n == Len(day.exams)
      totalHoursNeeded == SumSeq([j \in 1..n |-> day.exams[j].plannedHours])
  IN IF ~day.available \/ n = 0 THEN day
     ELSE IF totalHoursNeeded < day.availableHours
       THEN [day EXCEPT !.exams[1].plannedHours = @ + (day.availableHours - totalHoursNeeded)]
     ELSE IF totalHoursNeeded > day.availableHours
       THEN [day EXCEPT !.exams = [j \in 1..n |->
              [day.exams[j] EXCEPT !.plannedHours =
                 RoundTenth(@ * day.availableHours, totalHoursNeeded)]]]
     ELSE day

BalanceDay(day) ==
  LET n == Len(day.exams)
      totalHoursNeeded == SumSeq([j \in 1..n |-> day.exams[j].plannedHours])
  IN IF ~day.available \/ n = 0 THEN day
     ELSE IF totalHoursNeeded < day.availableHours
       THEN [day EXCEPT !.exams = [j \in 1..n |->
              [day.exams[j] EXCEPT !.plannedHours =
                 RoundTenth(n * @ + (day.availableHours - totalHoursNeeded), n)]]]
     ELSE IF totalHoursNeeded > day.availableHours
       THEN [day EXCEPT !.exams = [j \in 1..n |->
              [day.exams[j] EXCEPT !.plannedHours =
                 RoundTenth(@ * day.availableHours, totalHoursNeeded)]]]
     ELSE day

Balance(days) == [i \in 1..Len(days) |-> BalanceDay(days[i])]

----------------------------------------------------------------------------
(* keepCompletedSessions: re-planning of an exam that has completed work *)

\* the hook walks customModified study days first, then by date
RECURSIVE InsertSorted(_, _, _)
InsertSorted(days, sorted, i) ==
  IF sorted = <<>> THEN <<i>>
  ELSE LET h == Head(sorted)
           before == \/ days[i].customModified /\ ~days[h].customModified
                     \/ /\ days[i].customModified = days[h].customModified
                        /\ days[i].date < days[h].date
       IN IF before THEN <<i>> \o sorted
          ELSE <<h>> \o InsertSorted(days, Tail(sorted), i)

RECURSIVE SortCustomFirst(_, _)
SortCustomFirst(days, idxs) ==
  IF idxs = <<>> THEN <<>>
  ELSE InsertSorted(days, SortCustomFirst(days, Tail(idxs)), Head(idxs))

RemainingAvailableDays(days, exam) ==
  LET completedDays == {i \in DOMAIN days : HasCompletedFor(days[i], exam.id)}
      latest == IF completedDays = {} THEN 0
                ELSE CHOOSE i \in completedDays :
                       \A j \in completedDays : days[j].date <= days[i].date
      futureDaysStart == IF latest = 0 THEN 1
                         ELSE FindIndex(days, LAMBDA d : d.date = days[latest].date) + 1
  IN SelectSeq(Indices(Len(days)), LAMBDA i :
       /\ i >= futureDaysStart
       /\ days[i].date < exam.date
       /\ (impl = "hook" => days[i].date >= StudyStartDate(exam))
       /\ days[i].available)

RemainingSplitAt(avail, exam) ==
  IF reviewStartIndex(avail, exam) = 0
    THEN Min2(CeilDiv(Len(avail), 2), Len(avail))
    ELSE reviewStartIndex(avail, exam)

RemainingStudyDays(avail, exam) == SubSeq(avail, 1, RemainingSplitAt(avail, exam))

RemainingReviewDays(avail, exam) == SubSeq(avail, RemainingSplitAt(avail, exam) + 1, Len(avail))

RemainingUnitsPerDay(sdays, remaining) ==
  IF Len(sdays) > 0 THEN CeilDiv(remaining, Len(sdays)) ELSE 0

WriteStudy(day, exam, cursor, n) ==
  LET existingExamIndex == FindIndex(day.exams, LAMBDA e : e.examId = exam.id)
  IN IF existingExamIndex > 0
       THEN IF ~day.exams[existingExamIndex].completed
              THEN [day EXCEPT !.exams[existingExamIndex] =
                      [@ EXCEPT !.chapters = StudyEntry(exam, cursor, n).chapters,
                                !.plannedHours = StudyEntry(exam, cursor, n).plannedHours,
                                !.isReview = FALSE]]
              ELSE day
       ELSE [day EXCEPT !.exams = Append(@, StudyEntry(exam, cursor, n))]

WriteReview(day, exam) ==
  LET existingExamIndex == FindIndex(day.exams, LAMBDA e : e.examId = exam.id)
  IN IF existingExamIndex > 0
       THEN IF ~day.exams[existingExamIndex].completed
              THEN [day EXCEPT !.exams[existingExamIndex] =
                      [@ EXCEPT !.chapters = <<>>, !.isReview = TRUE, !.plannedHours = 100]]
              ELSE day
       ELSE [day EXCEPT !.exams = Append(@, ReviewEntry(exam))]

RECURSIVE RemainingWalk(_, _, _, _, _, _, _)
RemainingWalk(days, sdays, k, remaining, cursor, exam, upd) ==
  IF k > Len(sdays) \/ remaining <= 0
    THEN days
    ELSE LET n == maxUnitsForToday(days[sdays[k]], exam, upd, remaining)
         IN RemainingWalk([days EXCEPT ![sdays[k]] = WriteStudy(@, exam, cursor, n)],
                          sdays, k + 1, remaining - n, PlusInf(cursor, n), exam, upd)

RECURSIVE RemainingReview(_, _, _, _)
RemainingReview(days, rdays, k, exam) ==
  IF k > Len(rdays)
    THEN days
    ELSE RemainingReview([days EXCEPT ![rdays[k]] = WriteReview(@, exam)], rdays, k + 1, exam)

distributeRemainingUnits(days, avail, exam, remainingUnits, nextUnitToStart) ==
  IF Len(avail) = 0 \/ remainingUnits <= 0
    THEN days
    ELSE LET sdays == RemainingStudyDays(avail, exam)
             order == IF impl = "hook" THEN SortCustomFirst(days, sdays) ELSE sdays
             walked == RemainingWalk(days, order, 1, remainingUnits, nextUnitToStart, exam,
                                     RemainingUnitsPerDay(sdays, remainingUnits))
         IN RemainingReview(walked, RemainingReviewDays(avail, exam), 1, exam)

\* the cursor handed to distributeRemainingUnits
nextUnitToStart(completedUnits) ==
  IF impl = "hook"
    THEN MaxOfSet(completedUnits \cup {0}) + 1
    ELSE PlusInf(MathMax(completedUnits), 1)

PlanProcessedExam(days, stored, exam) ==
  LET completedUnits == getCompletedUnits(stored, exam.id)
      remainingUnits == StudyUnits(exam) - Cardinality(completedUnits)
  IN IF remainingUnits > 0
       THEN distributeRemainingUnits(days, RemainingAvailableDays(days, exam), exam,
                                     remainingUnits, nextUnitToStart(completedUnits))
       ELSE days

----------------------------------------------------------------------------
(* Day Selection and Pruning of the useStudyPlanGenerator hook *)

HookRegularStartIndex(nRegular, exam) ==
  LET daysToSkip == (7 * (nRegular - optimalStudyDaysNeeded(exam))) \div 10
  IN IF StudyUnits(exam) < 30 /\ exam.date - today > 30
       THEN daysToSkip
       ELSE (4 * daysToSkip) \div 10

HookPrunedDays(days, avail, exam) ==
  IF 2 * Len(avail) > 3 * optimalStudyDaysNeeded(exam)
    THEN LET customDays == SelectSeq(avail, LAMBDA i : days[i].customModified)
             regularDays == SelectSeq(avail, LAMBDA i : ~days[i].customModified)
             regularDaysToKeep == Slice(regularDays, HookRegularStartIndex(Len(regularDays), exam))
         IN SortCustomFirst(days, customDays \o regularDaysToKeep)
    ELSE avail

----------------------------------------------------------------------------
(* generateStudyPlan of AppContext.updated.tsx and of the hook *)

PlanExam(days, stored, exam, keep) ==
  IF exam.date - today <= 0 THEN days
  ELSE IF keep /\ exam.id \in processedExams(stored, keep)
    THEN PlanProcessedExam(days, stored, exam)
  ELSE IF impl = "hook"
    THEN Distribute(days,
           HookPrunedDays(days, SortCustomFirst(days, FullAvailableDays(days, exam)), exam),
           exam)
  ELSE Distribute(days, PrunedDays(FullAvailableDays(days, exam), exam), exam)

RECURSIVE PlanAllExams(_, _, _, _)
PlanAllExams(days, stored, i, keep) ==
  IF i > Len(exams) THEN days
  ELSE PlanAllExams(PlanExam(days, stored, exams[i], keep), stored, i + 1, keep)

NewStudyDays(stored, keep) ==
  Balance(PlanAllExams(BuildCalendar(stored, keep), stored, 1, keep))

----------------------------------------------------------------------------
(* generateStudyPlan of AppContext.tsx *)

\* every day is created fresh; the completed assignments are pushed back
LegacyCalendar(stored, keep) ==
  [i \in 1..CalendarLength |->
     LET fresh == FreshDay(stored, today + i - 1)
     IN IF keep /\ HasDay(stored, fresh.date)
          THEN [fresh EXCEPT !.exams =
                  SelectSeq(DayAt(stored, fresh.date).exams, LAMBDA a : a.completed)]
          ELSE fresh]

\* dayDate < examDate && day.available && !options?.keepCompletedSessions ||
\*   (options.keepCompletedSessions && !day.exams.some(e => e.completed))
LegacyDayFilter(day, exam, opts) ==
  \/ day.date < exam.date /\ day.available /\ opts # "keep"
  \/ opts = "keep" /\ ~HasCompleted(day)

LegacyAvailableDays(days, exam, opts) ==
  SelectSeq(Indices(Len(days)), LAMBDA i :
    days[i].date # exam.date /\ LegacyDayFilter(days[i], exam, opts))

\* with no argument the right operand reads options.keepCompletedSessions of undefined
LegacyFilterThrows(days, exam, opts) ==
  /\ opts = "none"
  /\ \E i \in DOMAIN days :
       days[i].date # exam.date /\ ~(days[i].date < exam.date /\ days[i].available)

LegacySkipsExam(stored, exam, opts) ==
  \/ exam.date - today <= 0
  \/ opts = "keep" /\ exam.id \in processedExams(stored, TRUE)

LegacyPlanExam(days, stored, exam, opts) ==
  IF LegacySkipsExam(stored, exam, opts) THEN days
  ELSE Distribute(days, PrunedDays(LegacyAvailableDays(days, exam, opts), exam), exam)

RECURSIVE LegacyPlanAllExams(_, _, _, _)
LegacyPlanAllExams(days, stored, i, opts) ==
  IF i > Len(exams) THEN days
  ELSE LegacyPlanAllExams(LegacyPlanExam(days, stored, exams[i], opts), stored, i + 1, opts)

LegacyRaises(stored, opts) ==
  \E i \in DOMAIN exams :
    /\ ~LegacySkipsExam(stored, exams[i], opts)
    /\ LegacyFilterThrows(LegacyCalendar(stored, FALSE), exams[i], opts)

LegacyNewStudyDays(stored, opts) ==
  Balance(LegacyPlanAllExams(LegacyCalendar(stored, opts = "keep"), stored, 1, opts))

----------------------------------------------------------------------------
(* Incremental Recalculation: recalculateFutureDays *)

\* examProgress is keyed by exam id in order of first completed entry of the edited day
RECURSIVE ProgressOrder(_, _)
ProgressOrder(entries, seen) ==
  IF entries = <<>> THEN <<>>
  ELSE LET e == Head(entries)
       IN IF e.completed /\ ExamExists(e.examId) /\ e.examId \notin seen
            THEN <<e.examId>> \o ProgressOrder(Tail(entries), seen \cup {e.examId})
            ELSE ProgressOrder(Tail(entries), seen)

ProgressCompletedUnits(updatedDay, id) ==
  UNION {Range(updatedDay.exams[j].chapters) :
           j \in {k \in DOMAIN updatedDay.exams :
                    updatedDay.exams[k].examId = id /\ updatedDay.exams[k].completed}}

RECURSIVE SortByDate(_, _)
SortByDate(days, idxs) ==
  IF idxs = <<>> THEN <<>>
  ELSE LET rest == SortByDate(days, Tail(idxs))
           i == Head(idxs)
       IN SelectSeq(rest, LAMBDA j : days[j].date <= days[i].date) \o <<i>> \o
          SelectSeq(rest, LAMBDA j : days[j].date > days[i].date)

\* a selection that also takes the days up to the edited one
futureExamDaysAll(days, updatedDayIndex, exam, remainingUnits) ==
  SortByDate(days, SelectSeq(Indices(Len(days)), LAMBDA i :
    days[i].date < exam.date /\ days[i].available))

futureExamDays(days, updatedDayIndex, exam, remainingUnits) ==
  LET selected == SortByDate(days, SelectSeq(Indices(Len(days)), LAMBDA i :
                    /\ i > updatedDayIndex
                    /\ days[i].date < exam.date
                    /\ days[i].available))
      daysNeeded == Min2(CeilDiv(remainingUnits * TimePerUnit(exam) * 10, defaultDailyHours * 8),
                         Len(selected))
      skipped == IF 2 * Len(selected) > 3 * daysNeeded /\ daysNeeded > 0
                   THEN Slice(selected, (7 * (Len(selected) - daysNeeded)) \div 10)
                   ELSE selected
      isSmallExamFarAway == /\ remainingUnits < 30
                            /\ exam.date - today > 30
                            /\ Len(skipped) > 15
  IN IF isSmallExamFarAway THEN Slice(skipped, (6 * Len(skipped)) \div 10) ELSE skipped

\* the cursor: the count of completed units in AppContext.tsx, their maximum otherwise
nextUnitToAssign(completedUnits) ==
  IF impl = "legacy"
    THEN Cardinality(completedUnits) + 1
    ELSE IF completedUnits # {} THEN MaxOfSet(completedUnits) + 1 ELSE 1

RecalcUnitsToday(day, exam, fdaysLen, index, remainingUnits, remainingToDistribute) ==
  LET reviewDaysForExam == ReviewDaysForExam(exam)
      maxUnitsForTime == day.availableHours \div TimePerUnit(exam)
      compressedSchedule == 5 * fdaysLen < remainingUnits
      unitsToday ==
        IF compressedSchedule
          THEN Min2(CeilDiv(remainingToDistribute,
                            Max2(1, fdaysLen - index - reviewDaysForExam)),
                    maxUnitsForTime)
          ELSE Min2(CeilDiv(remainingUnits, Max2(1, fdaysLen - reviewDaysForExam)),
                    Min2(remainingToDistribute, maxUnitsForTime))
  IN Max2(1, unitsToday)

RecalcStudyDay(day, exam, cursor, pushed, unitsToday) ==
  LET examDayIndex == FindIndex(day.exams, LAMBDA e : e.examId = exam.id)
      todayUnits == [i \in 1..pushed |-> cursor + i - 1]
      hoursNeeded == Max2(50, unitsToday * TimePerUnit(exam))
  IN IF examDayIndex > 0
       THEN [day EXCEPT !.exams[examDayIndex] =
               [@ EXCEPT !.chapters = todayUnits, !.plannedHours = hoursNeeded,
                         !.isReview = FALSE]]
       ELSE [day EXCEPT !.exams = Append(@,
               [examId |-> exam.id, chapters |-> todayUnits, plannedHours |-> hoursNeeded,
                actualHours |-> 0, completed |-> FALSE, isReview |-> FALSE])]

RecalcReviewDay(day, exam) ==
  LET examDayIndex == FindIndex(day.exams, LAMBDA e : e.examId = exam.id)
  IN IF examDayIndex > 0
       THEN [day EXCEPT !.exams[examDayIndex] = [@ EXCEPT !.isReview = TRUE, !.chapters = <<>>]]
       ELSE [day EXCEPT !.exams = Append(@, ReviewEntry(exam))]

RecalcSpliceDay(day, exam) ==
  LET examDayIndex == FindIndex(day.exams, LAMBDA e : e.examId = exam.id)
  IN IF examDayIndex > 0
       THEN [day EXCEPT !.exams = SubSeq(@, 1, examDayIndex - 1) \o
                                  SubSeq(@, examDayIndex + 1, Len(@))]
       ELSE day

\* k is the 1-based position in fdays; the forEach index is k - 1
RECURSIVE RecalcWalk(_, _, _, _, _, _, _)
RecalcWalk(days, fdays, k, remainingUnits, remainingToDistribute, cursor, exam) ==
  IF k > Len(fdays) THEN days
  ELSE LET d == fdays[k]
           isReviewDay == k - 1 >= Len(fdays) - ReviewDaysForExam(exam)
           unitsToday == RecalcUnitsToday(days[d], exam, Len(fdays), k - 1,
                                          remainingUnits, remainingToDistribute)
           pushed == Max2(0, Min2(unitsToday, StudyUnits(exam) - cursor + 1))
       IN IF isReviewDay
            THEN RecalcWalk([days EXCEPT ![d] = RecalcReviewDay(@, exam)], fdays, k + 1,
                            remainingUnits, remainingToDistribute, cursor, exam)
          ELSE IF remainingToDistribute > 0
            THEN RecalcWalk([days EXCEPT ![d] = RecalcStudyDay(@, exam, cursor, pushed, unitsToday)],
                            fdays, k + 1, remainingUnits, remainingToDistribute - pushed,
                            cursor + pushed, exam)
          ELSE RecalcWalk([days EXCEPT ![d] = RecalcSpliceDay(@, exam)], fdays, k + 1,
                          remainingUnits, remainingToDistribute, cursor, exam)

RecalcExam(days, updatedDayIndex, exam) ==
  LET completedUnits == ProgressCompletedUnits(days[updatedDayIndex], exam.id)
      remainingUnits == StudyUnits(exam) - Cardinality(completedUnits)
  IN IF exam.date - today <= 0 THEN days
     ELSE RecalcWalk(days, futureExamDays(days, updatedDayIndex, exam, remainingUnits), 1,
                     remainingUnits, remainingUnits, nextUnitToAssign(completedUnits), exam)

RECURSIVE RecalcAll(_, _, _)
RecalcAll(days, updatedDayIndex, ids) ==
  IF ids = <<>> THEN days
  ELSE RecalcAll(RecalcExam(days, updatedDayIndex, ExamById(Head(ids))),
                 updatedDayIndex, Tail(ids))

recalculateFutureDays(days, updatedDayIndex) ==
  RecalcAll(days, updatedDayIndex, ProgressOrder(days[updatedDayIndex].exams, {}))

----------------------------------------------------------------------------
(* updateStudyDay *)

hasCompletedExams(day) ==
  \E j \in DOMAIN day.exams : day.exams[j].completed /\ day.exams[j].actualHours > 0

updateStudyDay(days, updatedDay) ==
  LET existingDayIndex == FindIndex(days, LAMBDA d : d.date = updatedDay.date)
      newDays == [days EXCEPT ![existingDayIndex] = updatedDay]
  IN IF existingDayIndex > 0
       THEN IF hasCompletedExams(updatedDay)
              THEN recalculateFutureDays(newDays, existingDayIndex)
              ELSE newDays
       ELSE Append(days, updatedDay)

----------------------------------------------------------------------------
(* Inputs *)

ExamA ==
  [id |-> 1, date |-> Horizon, startStudyDate |-> Undefined, usePages |-> FALSE,
   chapters |-> 4, pages |-> 0, timePerUnit |-> 100, customReviewDays |-> 1]

ExamB ==
  [id |-> 2, date |-> 1, startStudyDate |-> Undefined, usePages |-> FALSE,
   chapters |-> 1, pages |-> 0, timePerUnit |-> 50, customReviewDays |-> Undefined]

ExamC ==
  [id |-> 3, date |-> 1, startStudyDate |-> Undefined, usePages |-> FALSE,
   chapters |-> 1, pages |-> 0, timePerUnit |-> 50, customReviewDays |-> Undefined]

ExamP ==
  [id |-> 4, date |-> Horizon, startStudyDate |-> 1, usePages |-> TRUE,
   chapters |-> 0, pages |-> 30, timePerUnit |-> 20, customReviewDays |-> 0]

\* a one-chapter exam a week ahead and a two-chapter exam more than 30 days ahead
ExamS ==
  [id |-> 1, date |-> Horizon + 4, startStudyDate |-> Undefined, usePages |-> FALSE,
   chapters |-> 1, pages |-> 0, timePerUnit |-> 100, customReviewDays |-> 2]

ExamF ==
  [id |-> 2, date |-> Horizon + 29, startStudyDate |-> Undefined, usePages |-> FALSE,
   chapters |-> 2, pages |-> 0, timePerUnit |-> 100, customReviewDays |-> Undefined]

\* an exam whose only day, between its start date and its date, is day 1
ExamQ ==
  [id |-> 5, date |-> 2, startStudyDate |-> 1, usePages |-> FALSE,
   chapters |-> 2, pages |-> 0, timePerUnit |-> 100, customReviewDays |-> Undefined]

ExamLists == {<<>>, <<ExamA>>, <<ExamA, ExamB>>, <<ExamB, ExamC>>, <<ExamP, ExamA>>}

GenExamLists == ExamLists \cup {<<ExamS>>, <<ExamF, ExamA>>, <<ExamQ, ExamA>>, <<ExamA, ExamQ>>}

Impls == {"updated", "legacy", "hook"}

HourChoices == {100}

CalendarDates == {1, Horizon + 1}

NoDay ==
  [date |-> Undefined, available |-> FALSE, availableHours |-> 0, exams |-> <<>>,
   customModified |-> FALSE]

\* a stored list written by a build that flags manually edited days
StoredDayLists(i) ==
  IF i = "hook"
    THEN {<<>>, <<[date |-> 1, available |-> TRUE, availableHours |-> 200, exams |-> <<>>,
                   customModified |-> TRUE]>>}
    ELSE {<<>>}

\* the completion dialog: the planned units, or one removed, or the last unit added
RECURSIVE AddSorted(_, _)
AddSorted(s, u) ==
  IF s = <<>> THEN <<u>>
  ELSE IF u < Head(s) THEN <<u>> \o s
  ELSE <<Head(s)>> \o AddSorted(Tail(s), u)

ChapterChoices(current, exam) ==
  {current}
  \cup (IF current # <<>> THEN {Tail(current)} ELSE {})
  \cup (IF StudyUnits(exam) >= 1 /\ StudyUnits(exam) \notin Range(current)
        THEN {AddSorted(current, StudyUnits(exam))} ELSE {})

----------------------------------------------------------------------------
(* Initial state *)

InitWith(i, lists) ==
  /\ impl = i
  /\ exams \in lists
  /\ today = 0
  /\ studyDays \in StoredDayLists(i)
  /\ raised = FALSE
  /\ last = [op |-> "init", opts |-> "none", day |-> NoDay, id |-> 0]
  /\ prevDays = <<>>
  /\ base = <<>>
  /\ streak = 0
  /\ steps = 0
  /\ edits = 0
  /\ unitsEdited = FALSE
  /\ studySessions = <<>>

Init == \E i \in Impls : InitWith(i, ExamLists)

InitUpdated == InitWith("updated", ExamLists)

InitLegacy == InitWith("legacy", ExamLists)

InitHook == InitWith("hook", ExamLists)

InitDelete == \E i \in {"updated", "legacy"} : InitWith(i, ExamLists)

InitExamEdit == InitWith("updated", ExamLists \cup {<<ExamQ>>})

\* a list that holds one day saved from the calendar dialog before any plan
SavedDayLists ==
  {<<>>, <<[date |-> Horizon + 1, available |-> FALSE, availableHours |-> 400, exams |-> <<>>,
            customModified |-> FALSE]>>}

InitCalendar ==
  /\ impl \in {"updated", "legacy"}
  /\ exams \in ExamLists
  /\ today = 0
  /\ studyDays \in SavedDayLists
  /\ raised = FALSE
  /\ last = [op |-> "init", opts |-> "none", day |-> NoDay, id |-> 0]
  /\ prevDays = <<>>
  /\ base = <<>>
  /\ streak = 0
  /\ steps = 0
  /\ edits = 0
  /\ unitsEdited = FALSE
  /\ studySessions = <<>>

\* an exam that needs three days of study, five days ahead
ExamH ==
  [id |-> 6, date |-> Horizon + 2, startStudyDate |-> Undefined, usePages |-> FALSE,
   chapters |-> 8, pages |-> 0, timePerUnit |-> 100, customReviewDays |-> 1]

\* stored days the user modified by hand, one per date of the set
RECURSIVE CustomDays(_)
CustomDays(dates) ==
  IF dates = {} THEN <<>>
  ELSE <<[date |-> MinOfSet(dates), available |-> TRUE, availableHours |-> 200, exams |-> <<>>,
          customModified |-> TRUE]>> \o CustomDays(dates \ {MinOfSet(dates)})

\* the hook with any of the next days modified by hand
InitPrune ==
  /\ impl = "hook"
  /\ exams \in {<<ExamH>>, <<ExamS>>, <<ExamA, ExamH>>}
  /\ today = 0
  /\ studyDays \in {CustomDays(dates) : dates \in SUBSET (0..(Horizon + 1))}
  /\ raised = FALSE
  /\ last = [op |-> "init", opts |-> "none", day |-> NoDay, id |-> 0]
  /\ prevDays = <<>>
  /\ base = <<>>
  /\ streak = 0
  /\ steps = 0
  /\ edits = 0
  /\ unitsEdited = FALSE
  /\ studySessions = <<>>

\* full generation only: the two generators that honour startStudyDate
InitGen == \E i \in {"updated", "hook"} : InitWith(i, GenExamLists)

----------------------------------------------------------------------------
(* Handlers *)

Record(op, opts, day) ==
  /\ last' = [op |-> op, opts |-> opts, day |-> day, id |-> 0]
  /\ prevDays' = studyDays
  /\ steps' = steps + 1
  /\ base' = IF op = "generate" /\ opts = "keep"
             THEN (IF streak = 0 THEN studyDays ELSE base) ELSE <<>>
  /\ streak' = IF op = "generate" /\ opts = "keep" THEN Min2(streak + 1, 2) ELSE 0

\* AppContext.updated.tsx
GenerateStudyPlan(opts) ==
  /\ impl = "updated"
  /\ steps < MaxSteps
  /\ studyDays' = IF Len(exams) = 0 THEN studyDays ELSE NewStudyDays(studyDays, opts = "keep")
  /\ raised' = FALSE
  /\ Record("generate", opts, NoDay)
  /\ UNCHANGED <<impl, exams, today, edits, unitsEdited, studySessions>>

\* AppContext.tsx: setStudyDays([]) runs before the day filter can throw
GenerateStudyPlanLegacy(opts) ==
  /\ impl = "legacy"
  /\ steps < MaxSteps
  /\ IF Len(exams) = 0
       THEN studyDays' = studyDays /\ raised' = FALSE
       ELSE IF LegacyRaises(studyDays, opts)
         THEN studyDays' = <<>> /\ raised' = TRUE
         ELSE studyDays' = LegacyNewStudyDays(studyDays, opts) /\ raised' = FALSE
  /\ Record("generate", opts, NoDay)
  /\ UNCHANGED <<impl, exams, today, edits, unitsEdited, studySessions>>

\* useStudyPlanGenerator: the caller stores the returned list; exams[0].date of
\* an empty list throws
GenerateStudyPlanHook(opts) ==
  /\ impl = "hook"
  /\ steps < MaxSteps
  /\ IF Len(exams) = 0
       THEN studyDays' = studyDays /\ raised' = TRUE
       ELSE studyDays' = NewStudyDays(studyDays, opts = "keep") /\ raised' = FALSE
  /\ Record("generate", opts, NoDay)
  /\ UNCHANGED <<impl, exams, today, edits, unitsEdited, studySessions>>

ApplyDayEdit(op, updatedDay) ==
  /\ studyDays' = updateStudyDay(studyDays, updatedDay)
  /\ raised' = FALSE
  /\ Record(op, "none", updatedDay)
  /\ UNCHANGED <<impl, exams, today, studySessions>>

\* StudyPlanPage.handleSaveActualStudy
SaveActualStudy(i, id, chapters) ==
  /\ steps < MaxSteps
  /\ i \in DOMAIN studyDays
  /\ \E j \in DOMAIN studyDays[i].exams :
       studyDays[i].exams[j].examId = id /\ ~studyDays[i].exams[j].completed
  /\ LET examDay == studyDays[i].exams[FindIndex(studyDays[i].exams, LAMBDA e : e.examId = id)]
     IN /\ ExamExists(id)
        /\ chapters \in ChapterChoices(examDay.chapters, ExamById(id))
        /\ ApplyDayEdit("complete",
             [studyDays[i] EXCEPT !.exams = [j \in DOMAIN studyDays[i].exams |->
                IF studyDays[i].exams[j].examId = id
                  THEN [studyDays[i].exams[j] EXCEPT !.completed = TRUE,
                                                     !.actualHours = examDay.plannedHours,
                                                     !.chapters = chapters]
                  ELSE studyDays[i].exams[j]]])
        /\ unitsEdited' = (unitsEdited \/ chapters # examDay.chapters)
  /\ UNCHANGED edits

\* StudyPlanPage.handleToggleCompletion(day, examId, false)
ToggleCompletionOff(i, id) ==
  /\ steps < MaxSteps
  /\ i \in DOMAIN studyDays
  /\ HasCompletedFor(studyDays[i], id)
  /\ ApplyDayEdit("uncheck",
       [studyDays[i] EXCEPT !.exams = [j \in DOMAIN studyDays[i].exams |->
          IF studyDays[i].exams[j].examId = id
            THEN [studyDays[i].exams[j] EXCEPT !.completed = FALSE]
            ELSE studyDays[i].exams[j]]])
  /\ UNCHANGED <<edits, unitsEdited>>

\* StudyPlanPage.handleUpdateAvailableHours
UpdateAvailableHours(i, hours) ==
  /\ steps < MaxSteps
  /\ edits < MaxEdits
  /\ i \in DOMAIN studyDays
  /\ hours # studyDays[i].availableHours
  /\ ApplyDayEdit("hours", [studyDays[i] EXCEPT !.availableHours = hours])
  /\ edits' = edits + 1
  /\ UNCHANGED unitsEdited

\* StudyCalendar.handleDateSelect and saveStudyDay
SaveStudyDay(date, isAvailable, hours) ==
  /\ steps < MaxSteps
  /\ edits < MaxEdits
  /\ LET selectedStudyDay ==
           IF HasDay(studyDays, date) THEN DayAt(studyDays, date)
           ELSE [date |-> date, available |-> TRUE, availableHours |-> 400, exams |-> <<>>,
                 customModified |-> FALSE]
     IN /\ hours \in HourChoices \cup {selectedStudyDay.availableHours}
        /\ ApplyDayEdit("calendar",
             [selectedStudyDay EXCEPT !.available = isAvailable, !.availableHours = hours])
  /\ edits' = edits + 1
  /\ UNCHANGED unitsEdited

\* midnight passes
AdvanceDay ==
  /\ steps < MaxSteps
  /\ today < MaxAdvance
  /\ today' = today + 1
  /\ steps' = steps + 1
  /\ last' = [op |-> "advance", opts |-> "none", day |-> NoDay, id |-> 0]
  /\ prevDays' = studyDays
  /\ base' = <<>>
  /\ streak' = 0
  /\ UNCHANGED <<impl, exams, studyDays, raised, edits, unitsEdited, studySessions>>

\* addStudySession, called by the timer with the selected exam and the current date
AddStudySession(id, duration) ==
  /\ steps < MaxSteps
  /\ ExamExists(id)
  /\ studySessions' = Append(studySessions, [examId |-> id, date |-> today, duration |-> duration])
  /\ raised' = FALSE
  /\ last' = [op |-> "session", opts |-> "none", day |-> NoDay, id |-> id]
  /\ prevDays' = studyDays
  /\ steps' = steps + 1
  /\ base' = <<>>
  /\ streak' = 0
  /\ UNCHANGED <<impl, exams, today, studyDays, edits, unitsEdited>>

\* a filter that spares the completed assignments of the exam
deleteExamDaysPlanned(days, id) ==
  [i \in 1..Len(days) |->
     [days[i] EXCEPT !.exams = SelectSeq(@, LAMBDA a : a.examId # id \/ a.completed)]]

\* a day list with the assignments of one exam filtered out
deleteExamDays(days, id) ==
  [i \in 1..Len(days) |->
     [days[i] EXCEPT !.exams = SelectSeq(@, LAMBDA a : a.examId # id)]]

\* deleteExam
DeleteExam(id) ==
  /\ steps < MaxSteps
  /\ ExamExists(id)
  /\ exams' = SelectSeq(exams, LAMBDA e : e.id # id)
  /\ studyDays' = deleteExamDays(studyDays, id)
  /\ studySessions' = SelectSeq(studySessions, LAMBDA x : x.examId # id)
  /\ raised' = FALSE
  /\ last' = [op |-> "delete", opts |-> "none", day |-> NoDay, id |-> id]
  /\ prevDays' = studyDays
  /\ steps' = steps + 1
  /\ base' = <<>>
  /\ streak' = 0
  /\ UNCHANGED <<impl, today, edits, unitsEdited>>

\* updateExam, called by the exam form with the exam's start date or its
\* review-day count changed
UpdateExam(id, startStudyDate, customReviewDays) ==
  /\ steps < MaxSteps
  /\ ExamExists(id)
  /\ \/ startStudyDate # ExamById(id).startStudyDate
     \/ customReviewDays # ExamById(id).customReviewDays
  /\ startStudyDate < ExamById(id).date
  /\ exams' = [i \in DOMAIN exams |->
                 IF exams[i].id = id
                   THEN [exams[i] EXCEPT !.startStudyDate = startStudyDate,
                                         !.customReviewDays = customReviewDays]
                   ELSE exams[i]]
  /\ last' = [op |-> "updateExam", opts |-> "none", day |-> NoDay, id |-> id]
  /\ prevDays' = studyDays
  /\ steps' = steps + 1
  /\ base' = <<>>
  /\ streak' = 0
  /\ UNCHANGED <<impl, today, studyDays, raised, edits, unitsEdited, studySessions>>

CompleteSome ==
  \E i \in 1..(Horizon + 2), id \in 1..5 :
    \E chapters \in ChapterChoices(
         IF i \in DOMAIN studyDays /\ HasEntryFor(studyDays[i], id)
           THEN studyDays[i].exams[FindIndex(studyDays[i].exams, LAMBDA e : e.examId = id)].chapters
           ELSE <<>>,
         IF ExamExists(id) THEN ExamById(id) ELSE ExamA) :
      SaveActualStudy(i, id, chapters)

UncheckSome == \E i \in 1..(Horizon + 2), id \in 1..4 : ToggleCompletionOff(i, id)

EditHoursSome == \E i \in 1..(Horizon + 2), hours \in HourChoices : UpdateAvailableHours(i, hours)

CalendarSome ==
  \E date \in CalendarDates, isAvailable \in BOOLEAN, hours \in HourChoices \cup {200, 400} :
    SaveStudyDay(date, isAvailable, hours)

AddSessionSome == \E id \in 1..5, duration \in {25} : AddStudySession(id, duration)

DeleteSome == \E id \in 1..5 : DeleteExam(id)

UpdateExamSome ==
  \E id \in 1..5, start \in {Undefined, 1, 2}, review \in {Undefined, 0} :
    \/ UpdateExam(id, start, ExamById(id).customReviewDays)
    \/ UpdateExam(id, ExamById(id).startStudyDate, review)

Options == {"none", "discard", "keep"}

NextUpdated ==
  \/ \E opts \in Options : GenerateStudyPlan(opts)
  \/ CompleteSome
  \/ UncheckSome
  \/ EditHoursSome
  \/ CalendarSome
  \/ AdvanceDay

NextLegacy ==
  \/ \E opts \in Options : GenerateStudyPlanLegacy(opts)
  \/ CompleteSome
  \/ UncheckSome
  \/ EditHoursSome
  \/ CalendarSome
  \/ AdvanceDay

NextHook ==
  \/ \E opts \in Options : GenerateStudyPlanHook(opts)
  \/ CompleteSome
  \/ UncheckSome
  \/ EditHoursSome
  \/ CalendarSome
  \/ AdvanceDay

Next ==
  \/ \E opts \in Options : GenerateStudyPlan(opts)
  \/ \E opts \in Options : GenerateStudyPlanLegacy(opts)
  \/ \E opts \in Options : GenerateStudyPlanHook(opts)
  \/ CompleteSome
  \/ UncheckSome
  \/ EditHoursSome
  \/ CalendarSome
  \/ AdvanceDay

NextGen ==
  \/ \E opts \in {"none", "discard"} : GenerateStudyPlan(opts)
  \/ \E opts \in {"none", "discard"} : GenerateStudyPlanHook(opts)
  \/ EditHoursSome
  \/ CalendarSome
  \/ AdvanceDay

\* the two providers with the timer and the exam list editor
NextDelete ==
  \/ \E opts \in Options : GenerateStudyPlan(opts)
  \/ \E opts \in Options : GenerateStudyPlanLegacy(opts)
  \/ CompleteSome
  \/ AddSessionSome
  \/ DeleteSome

NextExamEdit ==
  \/ \E opts \in Options : GenerateStudyPlan(opts)
  \/ CompleteSome
  \/ EditHoursSome
  \/ UpdateExamSome

NextCalendar ==
  \/ \E opts \in Options : GenerateStudyPlan(opts)
  \/ \E opts \in Options : GenerateStudyPlanLegacy(opts)
  \/ CompleteSome
  \/ CalendarSome

NextPrune ==
  \/ \E opts \in {"none", "discard"} : GenerateStudyPlanHook(opts)
  \/ AdvanceDay

Spec == Init /\ [][Next]_vars

SpecGen == InitGen /\ [][NextGen]_vars

SpecDelete == InitDelete /\ [][NextDelete]_vars

SpecExamEdit == InitExamEdit /\ [][NextExamEdit]_vars

SpecCalendar == InitCalendar /\ [][NextCalendar]_vars

SpecPrune == InitPrune /\ [][NextPrune]_vars

SpecUpdated == InitUpdated /\ [][NextUpdated]_vars

SpecLegacy == InitLegacy /\ [][NextLegacy]_vars

SpecHook == InitHook /\ [][NextHook]_vars

----------------------------------------------------------------------------
(* Claims *)

IsGenerate == last.op = "generate" /\ ~raised /\ Len(exams) > 0

\* the study days full generation walks for an exam, as positions of the new calendar
GenStudyDays(cal, exam) ==
  IF exam.date - today <= 0 THEN <<>>
  ELSE IF impl = "hook"
    THEN FullStudyDays(HookPrunedDays(cal, SortCustomFirst(cal, FullAvailableDays(cal, exam)), exam), exam)
  ELSE FullStudyDays(PrunedDays(FullAvailableDays(cal, exam), exam), exam)

NotStarved(cal, exam) ==
  LET sdays == GenStudyDays(cal, exam)
  IN /\ Len(sdays) > 0
     /\ \A k \in DOMAIN sdays :
          cal[sdays[k]].availableHours \div TimePerUnit(exam) >= unitsPerDay(sdays, exam)

\* the unit lists of the non-review assignments of an exam, day by day
StudyLists(days, id) ==
  {<<i, j>> \in (DOMAIN days) \X (1..(2 * Len(exams))) :
     /\ j \in DOMAIN days[i].exams
     /\ days[i].exams[j].examId = id
     /\ ~days[i].exams[j].isReview}

UnitsPartition(days, exam) ==
  /\ UNION {Range(days[p[1]].exams[p[2]].chapters) : p \in StudyLists(days, exam.id)}
       = 1..StudyUnits(exam)
  /\ \A p \in StudyLists(days, exam.id) :
       Cardinality(Range(days[p[1]].exams[p[2]].chapters)) = Len(days[p[1]].exams[p[2]].chapters)
  /\ \A p, q \in StudyLists(days, exam.id) :
       p # q => Range(days[p[1]].exams[p[2]].chapters)
                  \cap Range(days[q[1]].exams[q[2]].chapters) = {}

\* C1: after a full generation that keeps nothing, every exam that has a study
\* day and is starved on none of its study days has non-review unit lists that
\* are pairwise disjoint and together are exactly 1..totalUnits.
C1_UnitConservation ==
  (IsGenerate /\ last.opts # "keep") =>
    \A i \in DOMAIN exams :
      NotStarved(BuildCalendar(prevDays, FALSE), exams[i]) => UnitsPartition(studyDays, exams[i])

C1_Witness ==
  /\ IsGenerate /\ last.opts # "keep"
  /\ \E i \in DOMAIN exams :
       /\ NotStarved(BuildCalendar(prevDays, FALSE), exams[i])
       /\ Len(GenStudyDays(BuildCalendar(prevDays, FALSE), exams[i])) >= 2
       /\ Cardinality(StudyLists(studyDays, exams[i].id)) >= 2
       /\ UnitsPartition(studyDays, exams[i])

\* an assignment of the new list that the last handler wrote: any assignment
\* after a regeneration that keeps nothing, otherwise one that the previous
\* list did not hold on that date
SameAssignment(a, b) ==
  /\ a.examId = b.examId
  /\ a.chapters = b.chapters
  /\ a.isReview = b.isReview
  /\ a.completed = b.completed

CreatedByLast(i, j) ==
  /\ last.op \in {"generate", "complete", "uncheck", "hours", "calendar"}
  /\ \/ last.op = "generate" /\ last.opts # "keep"
     \/ ~\E p \in DOMAIN prevDays :
           /\ prevDays[p].date = studyDays[i].date
           /\ \E q \in DOMAIN prevDays[p].exams :
                SameAssignment(prevDays[p].exams[q], studyDays[i].exams[j])

\* C2: every assignment written by generateStudyPlan (discard mode or
\* keepCompletedSessions) or by recalculateFutureDays sits on a day strictly
\* before the date of its exam.
C2_BeforeExamDate ==
  \A i \in DOMAIN studyDays :
    \A j \in DOMAIN studyDays[i].exams :
      (CreatedByLast(i, j) /\ ExamExists(studyDays[i].exams[j].examId)) =>
        studyDays[i].date < ExamById(studyDays[i].exams[j].examId).date

\* C3: generateStudyPlan of AppContext.tsx with a non-empty exam list, with an
\* options object or with no argument, does not raise and leaves a complete
\* day list (one day per date from today to the day after the furthest exam);
\* it never ends with the plan cleared.
C3_NoPartialFailure ==
  (impl = "legacy" /\ last.op = "generate" /\ Len(exams) > 0) =>
    /\ ~raised
    /\ Len(studyDays) = CalendarLength
    /\ \A i \in DOMAIN studyDays : studyDays[i].date = today + i - 1

InCalendar(date) == date >= today /\ date <= FurthestExamDate + 1

\* the completed assignments of a day list as <<position of day, position of assignment>>
CompletedAt(days) ==
  {<<i, j>> \in (DOMAIN days) \X (1..(2 * Len(exams) + 1)) :
     j \in DOMAIN days[i].exams /\ days[i].exams[j].completed}

\* C4: after two keepCompletedSessions regenerations in a row, every assignment
\* that was completed before the first one, on a day inside the regenerated
\* calendar, is still there with the same unit list and the same actualHours.
C4_KeepTwiceStable ==
  (impl = "updated" /\ streak = 2 /\ Len(exams) > 0) =>
    \A p \in CompletedAt(base) :
      InCalendar(base[p[1]].date) =>
        /\ HasDay(studyDays, base[p[1]].date)
        /\ p[2] \in DOMAIN DayAt(studyDays, base[p[1]].date).exams
        /\ LET a == base[p[1]].exams[p[2]]
               b == DayAt(studyDays, base[p[1]].date).exams[p[2]]
           IN /\ b.examId = a.examId
              /\ b.completed
              /\ b.chapters = a.chapters
              /\ b.actualHours = a.actualHours

C4_Witness ==
  /\ impl = "updated" /\ streak = 2 /\ Len(exams) > 0
  /\ \E p \in CompletedAt(base) :
       /\ InCalendar(base[p[1]].date)
       /\ base[p[1]].exams[p[2]].chapters # <<>>
       /\ DayAt(studyDays, base[p[1]].date).exams[p[2]].chapters = base[p[1]].exams[p[2]].chapters
       /\ \E i \in DOMAIN studyDays : \E j \in DOMAIN studyDays[i].exams :
            /\ studyDays[i].exams[j].examId = base[p[1]].exams[p[2]].examId
            /\ ~studyDays[i].exams[j].completed
            /\ studyDays[i].date > base[p[1]].date

\* C5: generateStudyPlan with keepCompletedSessions never removes a completed
\* assignment: every assignment completed before the call, also one on a day
\* before today, is in the resulting list with completed = TRUE.
C5_KeepNeverRemoves ==
  (last.op = "generate" /\ last.opts = "keep" /\ ~raised /\ Len(exams) > 0) =>
    \A p \in CompletedAt(prevDays) :
      /\ HasDay(studyDays, prevDays[p[1]].date)
      /\ \E j \in DOMAIN DayAt(studyDays, prevDays[p[1]].date).exams :
           LET b == DayAt(studyDays, prevDays[p[1]].date).exams[j]
           IN /\ b.examId = prevDays[p[1]].exams[p[2]].examId
              /\ b.chapters = prevDays[p[1]].exams[p[2]].chapters
              /\ b.completed

\* the last handler was updateStudyDay replacing an existing day by one that
\* holds an assignment completed with actualHours > 0
IsRecalculation ==
  /\ last.op \in {"complete", "uncheck", "hours", "calendar"}
  /\ HasDay(prevDays, last.day.date)
  /\ hasCompletedExams(last.day)

EditedIndex == FindIndex(prevDays, LAMBDA d : d.date = last.day.date)

CompletedExamsOf(day) ==
  {day.exams[j].examId : j \in {k \in DOMAIN day.exams : day.exams[k].completed}}

OtherAssignments(day, ids) == SelectSeq(day.exams, LAMBDA a : a.examId \notin ids)

\* C6: updateStudyDay with a day d that holds an assignment completed with
\* actualHours > 0 changes the list only at d, which becomes the submitted day,
\* and in the assignments, at later list positions, of the exams completed on
\* d; earlier days and the assignments of every other exam are unchanged.
C6_RecalculationFrame ==
  IsRecalculation =>
    /\ Len(studyDays) = Len(prevDays)
    /\ studyDays[EditedIndex] = last.day
    /\ \A i \in DOMAIN prevDays :
         /\ i < EditedIndex => studyDays[i] = prevDays[i]
         /\ i > EditedIndex =>
              /\ [studyDays[i] EXCEPT !.exams = <<>>] = [prevDays[i] EXCEPT !.exams = <<>>]
              /\ OtherAssignments(studyDays[i], CompletedExamsOf(last.day))
                   = OtherAssignments(prevDays[i], CompletedExamsOf(last.day))

C6_Witness ==
  /\ IsRecalculation
  /\ EditedIndex > 1
  /\ \E i \in DOMAIN prevDays :
       /\ i > EditedIndex
       /\ studyDays[i] # prevDays[i]
       /\ OtherAssignments(prevDays[i], CompletedExamsOf(last.day)) # <<>>
  /\ \E i \in DOMAIN prevDays : i < EditedIndex /\ prevDays[i].exams # <<>>

\* the unit numbers an exam has on a day, over all its assignments of that day
UnitsOn(day, id) ==
  UNION {Range(day.exams[j].chapters) :
           j \in {k \in DOMAIN day.exams : day.exams[k].examId = id}}

\* C7: whatever regenerations and completion-triggered recalculations have
\* run, with every completion recorded on the units that were planned, no unit
\* number of an exam is in the assignments of two different days.
C7_NoUnitOnTwoDays ==
  ~unitsEdited =>
  \A e \in DOMAIN exams :
    \A i, k \in DOMAIN studyDays :
      i # k => UnitsOn(studyDays[i], exams[e].id) \cap UnitsOn(studyDays[k], exams[e].id) = {}

\* C8: every unit number of an assignment lies in 1..totalUnits of its exam,
\* after full generation, keepCompletedSessions re-planning and
\* recalculateFutureDays, whatever units were marked completed (the completion
\* dialog itself only records units of 1..totalUnits).
C8_UnitsInRange ==
  \A e \in DOMAIN exams :
    \A i \in DOMAIN studyDays :
      UnitsOn(studyDays[i], exams[e].id) \subseteq 1..StudyUnits(exams[e])

PlannedSum(day) == SumSeq([j \in DOMAIN day.exams |-> day.exams[j].plannedHours])

\* C9: after generateStudyPlan, on every available day that has an assignment
\* the plannedHours add up to the day's availableHours within 0.1 hour,
\* however many assignments the day has.
C9_LoadWithinTolerance ==
  (impl = "updated" /\ IsGenerate) =>
    \A i \in DOMAIN studyDays :
      (studyDays[i].available /\ studyDays[i].exams # <<>>) =>
        /\ PlannedSum(studyDays[i]) - studyDays[i].availableHours <= 10
        /\ studyDays[i].availableHours - PlannedSum(studyDays[i]) <= 10

\* the days the last generateStudyPlan could plan an exam on: those of the
\* full selection, or for an exam with completed work those after its latest
\* completed day; none when the exam was not planned at all
EligibleDays(exam) ==
  LET keep == last.opts = "keep"
      cal == BuildCalendar(prevDays, keep)
  IN IF exam.date - today <= 0 THEN <<>>
     ELSE IF keep /\ exam.id \in processedExams(prevDays, keep)
       THEN IF StudyUnits(exam) - Cardinality(getCompletedUnits(prevDays, exam.id)) > 0
              THEN RemainingAvailableDays(cal, exam) ELSE <<>>
     ELSE FullAvailableDays(cal, exam)

HasReviewFor(days, id) ==
  \E i \in DOMAIN days : \E j \in DOMAIN days[i].exams :
    days[i].exams[j].examId = id /\ days[i].exams[j].isReview

\* C10: after generateStudyPlan, an exam with a review-day count above 0 that
\* had at least one eligible day, also exactly one, has an isReview assignment
\* on some day, in full generation and in keepCompletedSessions re-planning.
C10_ReviewFloor ==
  (impl = "updated" /\ IsGenerate) =>
    \A e \in DOMAIN exams :
      (ReviewDaysForExam(exams[e]) > 0 /\ Len(EligibleDays(exams[e])) >= 1) =>
        HasReviewFor(studyDays, exams[e].id)

\* the calendar a keepCompletedSessions regeneration starts from
KeepCalendar ==
  IF impl = "legacy" THEN LegacyCalendar(prevDays, TRUE) ELSE BuildCalendar(prevDays, TRUE)

\* an exam with completed work, units left and a day to put them on
NeedsReplanning(exam) ==
  /\ exam.date - today > 0
  /\ exam.id \in processedExams(prevDays, TRUE)
  /\ StudyUnits(exam) - Cardinality(getCompletedUnits(prevDays, exam.id)) > 0
  /\ Len(RemainingAvailableDays(KeepCalendar, exam)) >= 1

\* a non-completed study assignment whose units all come after the completed ones
PlannedAfter(days, id, completedUnits) ==
  \E i \in DOMAIN days : \E j \in DOMAIN days[i].exams :
    LET a == days[i].exams[j]
    IN /\ a.examId = id
       /\ ~a.completed
       /\ ~a.isReview
       /\ a.chapters # <<>>
       /\ \A u \in Range(a.chapters) : u >= 1 /\ \A c \in completedUnits : u > c

\* C11: after generateStudyPlan with keepCompletedSessions, an exam that has a
\* completed assignment, units left and an eligible later day has non-completed
\* assignments for units after the completed ones, in AppContext.tsx as in
\* AppContext.updated.tsx.
C11_ProcessedExamReplanned ==
  (last.op = "generate" /\ last.opts = "keep" /\ ~raised /\ Len(exams) > 0) =>
    \A e \in DOMAIN exams :
      NeedsReplanning(exams[e]) =>
        PlannedAfter(studyDays, exams[e].id, getCompletedUnits(prevDays, exams[e].id))

\* C12: generateStudyPlan with an empty exam list plans nothing, leaves the
\* stored day list as it was and does not raise, in AppContext.tsx and in the
\* useStudyPlanGenerator hook.
C12_EmptyExamsNoOp ==
  (last.op = "generate" /\ Len(exams) = 0) => (~raised /\ studyDays = prevDays)

\* no day of the new calendar is at or after the exam's start, before its
\* date and available
NoEligibleDay(exam) ==
  \A d \in today..(FurthestExamDate + 1) :
    (d >= StudyStartDate(exam) /\ d < exam.date) =>
      HasDay(prevDays, d) /\ ~DayAt(prevDays, d).available

\* the full generation of the same stored list with one exam left out of the
\* exam list: the calendar ends the day after the furthest of the others
CalendarWithout(id) ==
  LET dates == {exams[i].date : i \in {k \in DOMAIN exams : exams[k].id # id}}
  IN SubSeq(BuildCalendar(prevDays, FALSE), 1,
            IF dates = {} THEN 0 ELSE Max2(0, MaxOfSet(dates) - today + 2))

RECURSIVE PlanWithout(_, _, _)
PlanWithout(days, i, id) ==
  IF i > Len(exams) THEN days
  ELSE IF exams[i].id = id THEN PlanWithout(days, i + 1, id)
  ELSE PlanWithout(PlanExam(days, prevDays, exams[i], FALSE), i + 1, id)

GeneratedWithout(id) == Balance(PlanWithout(CalendarWithout(id), 1, id))

\* C13: in a full generation an exam with no eligible day (every day from its
\* start to the eve of its date unavailable, or no such day) gets no
\* assignment, nothing is raised, and every day holds for the other exams the
\* assignments it would hold had the exam not been in the list.
C13_NoEligibleDayIsSilent ==
  (last.op = "generate" /\ last.opts # "keep" /\ Len(exams) > 0) =>
    \A e \in DOMAIN exams :
      NoEligibleDay(exams[e]) =>
        /\ ~raised
        /\ \A i \in DOMAIN studyDays : ~HasEntryFor(studyDays[i], exams[e].id)
        /\ \A i \in DOMAIN studyDays :
             OtherAssignments(studyDays[i], {exams[e].id})
               = IF i <= Len(GeneratedWithout(exams[e].id))
                   THEN GeneratedWithout(exams[e].id)[i].exams ELSE <<>>

C13_Witness ==
  /\ last.op = "generate" /\ last.opts # "keep" /\ ~raised
  /\ \E e \in DOMAIN exams :
       /\ NoEligibleDay(exams[e])
       /\ exams[e].date > today
       /\ \E i \in DOMAIN studyDays :
            ~studyDays[i].available /\ studyDays[i].date < exams[e].date
       /\ \E i \in DOMAIN studyDays : studyDays[i].exams # <<>>

Sessions(ss, ids) == SelectSeq(ss, LAMBDA x : x.examId \notin ids)

\* C14: deleteExam(id) removes the exam, its assignments on every day and its
\* sessions; the other exams, their assignments and sessions and each day's
\* date, availability and hours stay as they were, and nothing refers to id
\* afterwards.
C14_DeleteExamFrame ==
  [][last'.op = "delete" =>
       LET id == last'.id
       IN /\ \A i \in DOMAIN exams' : exams'[i].id # id
          /\ exams' = SelectSeq(exams, LAMBDA e : e.id # id)
          /\ Len(exams') = Len(exams) - 1
          /\ Len(studyDays') = Len(studyDays)
          /\ \A i \in DOMAIN studyDays :
               /\ [studyDays'[i] EXCEPT !.exams = <<>>] = [studyDays[i] EXCEPT !.exams = <<>>]
               /\ ~HasEntryFor(studyDays'[i], id)
               /\ studyDays'[i].exams = OtherAssignments(studyDays[i], {id})
          /\ \A k \in DOMAIN studySessions' : studySessions'[k].examId # id
          /\ studySessions' = Sessions(studySessions, {id})]_vars

C14_Witness ==
  /\ last.op = "delete"
  /\ \E i \in DOMAIN prevDays :
       HasEntryFor(prevDays[i], last.id) /\ studyDays[i].exams # <<>>
  /\ studySessions # <<>>
  /\ exams # <<>>

\* C15: recalculateFutureDays, run by updateStudyDay, leaves the unit list and
\* the review flag of every assignment that was already completed on another
\* day as they were, also on a day later than the one being edited.
C15_RecalculationKeepsCompleted ==
  IsRecalculation =>
    \A i \in DOMAIN prevDays :
      i # EditedIndex =>
        \A j \in DOMAIN prevDays[i].exams :
          prevDays[i].exams[j].completed =>
            /\ i \in DOMAIN studyDays
            /\ \E k \in DOMAIN studyDays[i].exams :
                 SameAssignment(prevDays[i].exams[j], studyDays[i].exams[k])

\* the day list recalculateFutureDays is handed: the previous one with the
\* submitted day in place
SubmittedDays == [prevDays EXCEPT ![EditedIndex] = last.day]

\* the remaining count recalculateFutureDays plans an exam with
PlannedRemaining(exam) ==
  StudyUnits(exam) - Cardinality(ProgressCompletedUnits(SubmittedDays[EditedIndex], exam.id))

\* C16: when a day is saved with a completed assignment of an exam,
\* recalculateFutureDays plans that exam with remaining = totalUnits minus the
\* number of units completed for it on all days, not on the edited day alone.
C16_RemainingCountsAllDays ==
  IsRecalculation =>
    \A e \in DOMAIN exams :
      exams[e].id \in CompletedExamsOf(last.day) =>
        PlannedRemaining(exams[e])
          = StudyUnits(exams[e]) - Cardinality(getCompletedUnits(SubmittedDays, exams[e].id))

\* the unit after the highest completed one, 1 when nothing is completed
AfterHighest(completedUnits) ==
  IF completedUnits = {} THEN 1 ELSE MaxOfSet(completedUnits) + 1

\* C17: when units are re-planned after completions, by recalculateFutureDays
\* in either AppContext file or by the keepCompletedSessions path of
\* generateStudyPlan, the first unit assigned is the highest completed unit
\* plus one, or 1 when no unit is completed; it is not the number of completed
\* units plus one.
C17_CursorAfterHighestCompleted ==
  /\ IsRecalculation =>
       \A e \in DOMAIN exams :
         exams[e].id \in CompletedExamsOf(last.day) =>
           nextUnitToAssign(ProgressCompletedUnits(last.day, exams[e].id))
             = AfterHighest(ProgressCompletedUnits(last.day, exams[e].id))
  /\ (IsGenerate /\ last.opts = "keep" /\ impl = "updated") =>
       \A e \in DOMAIN exams :
         NeedsReplanning(exams[e]) =>
           nextUnitToStart(getCompletedUnits(prevDays, exams[e].id))
             = AfterHighest(getCompletedUnits(prevDays, exams[e].id))

\* C18: an updateStudyDay call that introduces no new completion - an edit of
\* the day's availableHours or availability, or the unchecking of an
\* assignment - leaves every day other than the edited one as it was.
C18_OnlyNewCompletionReplans ==
  last.op \in {"hours", "calendar", "uncheck"} =>
    \A p \in DOMAIN prevDays :
      prevDays[p].date # last.day.date =>
        p \in DOMAIN studyDays /\ studyDays[p] = prevDays[p]

\* a non-review assignment of the exam, not completed, on a day of the list
\* after position from
HasStudyFor(days, id, from) ==
  \E i \in DOMAIN days : \E j \in DOMAIN days[i].exams :
    /\ i > from
    /\ days[i].exams[j].examId = id
    /\ ~days[i].exams[j].isReview
    /\ ~days[i].exams[j].completed

\* the days after the edited one that are available and before the exam
LaterEligible(exam) ==
  {i \in DOMAIN prevDays :
     i > EditedIndex /\ prevDays[i].date < exam.date /\ prevDays[i].available}

\* C19: an exam with at least one eligible day and at least one remaining unit
\* gets at least one non-review assignment from planning, also when its
\* review-day count is at least the number of eligible days: in full
\* generation, in distributeRemainingUnits and in recalculateFutureDays.
C19_StudyFloor ==
  /\ (impl = "updated" /\ IsGenerate) =>
       \A e \in DOMAIN exams :
         (Len(EligibleDays(exams[e])) >= 1 /\ StudyUnits(exams[e]) >= 1) =>
           HasStudyFor(studyDays, exams[e].id, 0)
  /\ (impl = "updated" /\ IsRecalculation) =>
       \A e \in DOMAIN exams :
         ( /\ exams[e].id \in CompletedExamsOf(last.day)
           /\ exams[e].date - today > 0
           /\ LaterEligible(exams[e]) # {}
           /\ StudyUnits(exams[e])
                - Cardinality(getCompletedUnits(SubmittedDays, exams[e].id)) >= 1 ) =>
           HasStudyFor(studyDays, exams[e].id, EditedIndex)

\* C20: no assignment written by generateStudyPlan, in discard mode or with
\* keepCompletedSessions, or by recalculateFutureDays on a day other than the
\* submitted one, sits on a day whose available flag is false.
C20_OnlyAvailableDays ==
  \A i \in DOMAIN studyDays :
    \A j \in DOMAIN studyDays[i].exams :
      ( /\ CreatedByLast(i, j)
        /\ ~raised
        /\ last.op = "generate" \/ (IsRecalculation /\ i # EditedIndex) ) =>
        studyDays[i].available

\* C21: no assignment written by generateStudyPlan, in full generation or in
\* keepCompletedSessions re-planning, or by recalculateFutureDays on a day
\* other than the submitted one, sits on a day before the study-start date of
\* its exam.
C21_NotBeforeStartDate ==
  \A i \in DOMAIN studyDays :
    \A j \in DOMAIN studyDays[i].exams :
      ( /\ CreatedByLast(i, j)
        /\ ~raised
        /\ last.op = "generate" \/ (IsRecalculation /\ i # EditedIndex)
        /\ ExamExists(studyDays[i].exams[j].examId)
        /\ ExamById(studyDays[i].exams[j].examId).startStudyDate # Undefined ) =>
        studyDays[i].date >= ExamById(studyDays[i].exams[j].examId).startStudyDate

\* the days of the new calendar left to an exam after pruning, in date order
PrunedFor(exam) ==
  IF exam.date - today <= 0 THEN <<>>
  ELSE PrunedDays(FullAvailableDays(BuildCalendar(prevDays, FALSE), exam), exam)

\* the plan of the last full generation before the load balancer ran
BeforeBalancing == PlanAllExams(BuildCalendar(prevDays, FALSE), prevDays, 1, FALSE)

ReviewAt(days, i, id) ==
  \E j \in DOMAIN days[i].exams : days[i].exams[j].examId = id /\ days[i].exams[j].isReview

StudyAt(days, i, id) ==
  \E j \in DOMAIN days[i].exams : days[i].exams[j].examId = id /\ ~days[i].exams[j].isReview

EntryFor(day, id) == day.exams[FindIndex(day.exams, LAMBDA a : a.examId = id)]

\* the exam of the specification's example: 100 chapters of 1 h, 20 days
\* ahead, 3 review days, on a calendar of days of 4 h
ExamHundred ==
  [id |-> 9, date |-> 20, startStudyDate |-> Undefined, usePages |-> FALSE,
   chapters |-> 100, pages |-> 0, timePerUnit |-> 100, customReviewDays |-> 3]

HundredCalendar == [i \in 1..22 |-> FreshDay(<<>>, i - 1)]

HundredPlan ==
  Distribute(HundredCalendar,
             PrunedDays(FullAvailableDays(HundredCalendar, ExamHundred), ExamHundred),
             ExamHundred)

SplitAsStated(exam) ==
  LET p == PrunedFor(exam)
      L == Len(p)
      R == ReviewDaysForExam(exam)
      perDay == CeilDiv(StudyUnits(exam), L - R)
      before == BeforeBalancing
  IN (R < L /\ StudyUnits(exam) >= 1) =>
       /\ \A i \in DOMAIN studyDays :
            /\ ReviewAt(studyDays, i, exam.id) <=> \E k \in (L - R + 1)..L : p[k] = i
            /\ StudyAt(studyDays, i, exam.id) => \E k \in 1..(L - R) : p[k] = i
            /\ HasEntryFor(studyDays[i], exam.id) =>
                 Len(EntryFor(studyDays[i], exam.id).chapters) <= perDay
       /\ \A k \in (L - R + 1)..L :
            /\ EntryFor(before[p[k]], exam.id).chapters = <<>>
            /\ EntryFor(before[p[k]], exam.id).plannedHours = 100
       /\ StudyAt(studyDays, p[1], exam.id)
       /\ Len(EntryFor(studyDays[p[1]], exam.id).chapters)
            = Min2(perDay, studyDays[p[1]].availableHours \div TimePerUnit(exam))

\* C22: in full generation an exam left with L days after pruning and a
\* review-day count R < L gets a review assignment (no units, isReview, 1 h
\* before balancing) on exactly the R last of them, its study assignments on
\* the first L - R only, and ceil(totalUnits / (L - R)) units per study day
\* where the day's hours allow; the 100-chapter example has 17 study days of
\* unitsPerDay 6 and 3 trailing review days.
C22_ReviewSplit ==
  (impl = "updated" /\ IsGenerate /\ last.opts # "keep") =>
    /\ \A e \in DOMAIN exams : SplitAsStated(exams[e])
    /\ today = 0 =>
         LET plan == HundredPlan
         IN /\ {i \in DOMAIN plan : StudyAt(plan, i, 9)} = 1..17
            /\ {i \in DOMAIN plan : ReviewAt(plan, i, 9)} = 18..20
            /\ unitsPerDay(FullStudyDays(Indices(20), ExamHundred), ExamHundred) = 6

C22_Witness ==
  /\ impl = "updated" /\ IsGenerate /\ last.opts # "keep" /\ today = 0
  /\ \E e \in DOMAIN exams :
       /\ ReviewDaysForExam(exams[e]) >= 1
       /\ Len(PrunedFor(exams[e])) - ReviewDaysForExam(exams[e]) >= 2
       /\ ReviewAt(studyDays, PrunedFor(exams[e])[Len(PrunedFor(exams[e]))], exams[e].id)
       /\ StudyAt(studyDays, PrunedFor(exams[e])[2], exams[e].id)

\* the days full generation selects for an exam, before pruning
SelectedFor(exam) ==
  IF exam.date - today <= 0 THEN <<>>
  ELSE FullAvailableDays(BuildCalendar(prevDays, FALSE), exam)

\* the number of earliest days the pruning rule drops from n selected days
StatedDrop(n, exam) ==
  LET optimal == CeilDiv(10 * StudyUnits(exam) * TimePerUnit(exam), 8 * defaultDailyHours)
      surplusShare == (7 * (n - optimal)) \div 10
  IN IF 2 * n <= 3 * optimal THEN 0
     ELSE IF StudyUnits(exam) < 30 /\ exam.date - today > 30 THEN surplusShare
     ELSE (4 * surplusShare) \div 10

\* the exam of the specification's example: 10 chapters of 1 h, 60 days ahead
ExamTen ==
  [id |-> 9, date |-> 60, startStudyDate |-> Undefined, usePages |-> FALSE,
   chapters |-> 10, pages |-> 0, timePerUnit |-> 100, customReviewDays |-> Undefined]

TenCalendar == [i \in 1..62 |-> FreshDay(<<>>, i - 1)]

\* C23: full generation plans an exam only on the selected days that remain
\* after the k earliest are dropped, and on the first of those, where k is 0
\* when n <= 1.5 x optimal, floor(0.7 x (n - optimal)) for an exam under 30
\* units more than 30 days away, and floor(0.4 x floor(0.7 x (n - optimal)))
\* otherwise; of the 60 days of a 10-chapter exam 60 days away more than half
\* are dropped.
C23_PruningDropsEarliest ==
  (impl = "updated" /\ IsGenerate /\ last.opts # "keep") =>
    /\ \A e \in DOMAIN exams :
         LET sel == SelectedFor(exams[e])
             n == Len(sel)
             k == StatedDrop(n, exams[e])
         IN /\ k >= 0 /\ k <= n
            /\ \A i \in DOMAIN studyDays :
                 HasEntryFor(studyDays[i], exams[e].id) => \E j \in (k + 1)..n : sel[j] = i
            /\ (n > k /\ StudyUnits(exams[e]) >= 1) =>
                 HasEntryFor(studyDays[sel[k + 1]], exams[e].id)
    /\ today = 0 =>
         LET sel == FullAvailableDays(TenCalendar, ExamTen)
             kept == PrunedDays(sel, ExamTen)
         IN /\ Len(sel) = 60
            /\ 2 * (Len(sel) - Len(kept)) > Len(sel)
            /\ kept = SubSeq(sel, StatedDrop(60, ExamTen) + 1, 60)

C23_Witness ==
  /\ impl = "updated" /\ IsGenerate /\ last.opts # "keep"
  /\ \E e \in DOMAIN exams :
       /\ StatedDrop(Len(SelectedFor(exams[e])), exams[e]) >= 2
       /\ StudyUnits(exams[e]) < 30 /\ exams[e].date - today > 30
       /\ HasEntryFor(studyDays[SelectedFor(exams[e])[StatedDrop(Len(SelectedFor(exams[e])), exams[e]) + 1]],
                      exams[e].id)
  /\ \E e \in DOMAIN exams :
       /\ Len(SelectedFor(exams[e])) >= 2
       /\ StatedDrop(Len(SelectedFor(exams[e])), exams[e]) = 0

\* C24: unchecking a completed assignment leaves its unit list as it was and
\* clears its completed flag and its actualHours, and nothing else of it.
C24_UncheckKeepsUnits ==
  (last.op = "uncheck" /\ HasDay(prevDays, last.day.date)) =>
    LET old == prevDays[EditedIndex]
        new == studyDays[EditedIndex]
    IN /\ Len(new.exams) = Len(old.exams)
       /\ \A j \in DOMAIN old.exams :
            (old.exams[j].completed /\ ~new.exams[j].completed) =>
              new.exams[j] = [old.exams[j] EXCEPT !.completed = FALSE, !.actualHours = 0]

\* C25: the stored day list is strictly ascending by date, one entry per date,
\* after any sequence of generateStudyPlan and updateStudyDay calls.
C25_DaysAscending ==
  \A i, j \in DOMAIN studyDays : i < j => studyDays[i].date < studyDays[j].date

\* C26: after generateStudyPlan, in either mode, no day holds two assignments
\* of the same exam, also for an exam whose eligible days do not exceed its
\* review-day count.
C26_OneAssignmentPerExam ==
  (impl = "updated" /\ IsGenerate) =>
    \A i \in DOMAIN studyDays :
      \A j, k \in DOMAIN studyDays[i].exams :
        j # k => studyDays[i].exams[j].examId # studyDays[i].exams[k].examId

\* C27: every non-review assignment written by full generation, by
\* distributeRemainingUnits or by recalculateFutureDays (on a day other than
\* the submitted one) lists at least one unit.
C27_StudyAssignmentHasUnits ==
  \A i \in DOMAIN studyDays :
    \A j \in DOMAIN studyDays[i].exams :
      ( /\ impl = "updated"
        /\ CreatedByLast(i, j)
        /\ ~raised
        /\ last.op = "generate" \/ (IsRecalculation /\ i # EditedIndex)
        /\ ~studyDays[i].exams[j].isReview
        /\ ~studyDays[i].exams[j].completed ) =>
        studyDays[i].exams[j].chapters # <<>>

\* the days the hook's full generation selects for an exam, and those it keeps
HookSelectedFor(exam) ==
  IF exam.date - today <= 0 THEN <<>>
  ELSE LET cal == BuildCalendar(prevDays, FALSE)
       IN SortCustomFirst(cal, FullAvailableDays(cal, exam))

HookKeptFor(exam) ==
  HookPrunedDays(BuildCalendar(prevDays, FALSE), HookSelectedFor(exam), exam)

\* C28: the pruning step of the hook's generateStudyPlan drops no
\* customModified day and at most floor(0.7 x max(0, regular days -
\* optimalStudyDaysNeeded)) regular days, none when the regular days are fewer
\* than optimalStudyDaysNeeded.
C28_HookPruningBounded ==
  (impl = "hook" /\ IsGenerate /\ last.opts # "keep") =>
    \A e \in DOMAIN exams :
      LET cal == BuildCalendar(prevDays, FALSE)
          sel == Range(HookSelectedFor(exams[e]))
          kept == Range(HookKeptFor(exams[e]))
          regular == {i \in sel : ~cal[i].customModified}
          optimal == CeilDiv(10 * StudyUnits(exams[e]) * TimePerUnit(exams[e]),
                             8 * defaultDailyHours)
      IN /\ kept \subseteq sel
         /\ \A i \in sel : cal[i].customModified => i \in kept
         /\ 10 * Cardinality(regular \ kept) <= 7 * Max2(0, Cardinality(regular) - optimal)

Reverse(s) == [i \in 1..Len(s) |-> s[Len(s) + 1 - i]]

\* full generation in discard mode with the exams taken in the given order
RECURSIVE PlanInOrder(_, _, _)
PlanInOrder(days, order, k) ==
  IF k > Len(order) THEN days
  ELSE PlanInOrder(PlanExam(days, prevDays, order[k], FALSE), order, k + 1)

GeneratedInOrder(order) == Balance(PlanInOrder(BuildCalendar(prevDays, FALSE), order, 1))

\* a day list with the assignments of each day taken as a bag
DayContents(days) ==
  [i \in DOMAIN days |->
     [date |-> days[i].date, available |-> days[i].available,
      availableHours |-> days[i].availableHours,
      exams |-> [a \in Range(days[i].exams) |->
                   Cardinality({j \in DOMAIN days[i].exams : days[i].exams[j] = a})]]]

\* C29: the plan of a full generation in discard mode (AppContext.updated.tsx)
\* is the plan the same generation gives with the exam list in the opposite
\* order, up to the order of the assignments inside a day.
C29_ExamOrderIrrelevant ==
  (impl = "updated" /\ IsGenerate /\ last.opts # "keep") =>
    DayContents(studyDays) = DayContents(GeneratedInOrder(Reverse(exams)))

C29_Witness ==
  /\ impl = "updated" /\ IsGenerate /\ last.opts # "keep"
  /\ Len(exams) = 2 /\ exams[1] # exams[2]
  /\ \E i \in DOMAIN studyDays :
       /\ HasEntryFor(studyDays[i], exams[1].id)
       /\ HasEntryFor(studyDays[i], exams[2].id)
       /\ studyDays[i].exams # GeneratedInOrder(Reverse(exams))[i].exams

\* C30: a completion-triggered recalculation applied a second time with the
\* same submitted day, to the list the first application left, gives that list
\* again.
C30_RecalculationIdempotent ==
  (impl = "updated" /\ IsRecalculation) => updateStudyDay(studyDays, last.day) = studyDays

====
